---- MODULE Spec2Model ----
(***************************************************************************)
(* The unified-diff patch engine of gambit-opentui (src/unnamed/part_001): *)
(* normalizePatchPath, sanitizePatchTargets, splitUnifiedDiffByFile and    *)
(* applyUnifiedDiff.                                                       *)
(*                                                                         *)
(* Representation.  A character is a one-character TLA+ string.  A line is *)
(* a sequence of characters without "\n".  A text is the non-empty         *)
(* sequence of lines that String.split("\n") yields for it, so that        *)
(* "a\n" is << <<"a">>, <<>> >> and "" is << <<>> >>; join("\n") is the    *)
(* inverse.  null/undefined is the value Null, which is no line because    *)
(* its only element is not a character.                                    *)
(***************************************************************************)
EXTENDS Integers, Sequences, FiniteSets, TLC

VARIABLES
    call,          \* which entry point this behaviour exercises
    pc,            \* position inside the running call
    \* ---- sanitizePatchTargets / splitUnifiedDiffByFile
    patchText,     \* argument patchText (a text)
    targets,       \* argument targetRelativePaths (array form)
    sanResult,     \* outcome of sanitizePatchTargets
    lines,         \* splitUnifiedDiffByFile: const lines
    idx,           \* splitUnifiedDiffByFile: position of the for-of loop
    buffer,        \* splitUnifiedDiffByFile: let buffer
    rawOld,        \* splitUnifiedDiffByFile: let rawOld
    rawNew,        \* splitUnifiedDiffByFile: let rawNew
    recording,     \* splitUnifiedDiffByFile: let recording
    patches,       \* splitUnifiedDiffByFile: const patches
    segments,      \* value returned by splitUnifiedDiffByFile
    \* ---- applyUnifiedDiff
    baseText,      \* argument baseText (a text)
    diffText,      \* argument diffText (a text)
    wanted,        \* the text the diff was generated for, or <<>>
    sourceLines,   \* const sourceLines
    patchLines,    \* const patchLines
    outputLines,   \* const outputLines
    sourceIndex,   \* let sourceIndex
    i,             \* loop variable i
    result,        \* outcome of applyUnifiedDiff
    \* ---- normalizePatchPath
    normalizeArg,  \* normalizePatchPath: argument rawPath
    normalized,    \* value returned by normalizePatchPath
    \* ---- resolveWorkspacePath
    workspaceRoot, \* config.workspaceRoot
    targetPath,    \* argument targetPath
    resolved       \* outcome of resolveWorkspacePath

vars == << call, pc, patchText, targets, sanResult, lines, idx, buffer, rawOld,
           rawNew, recording, patches, segments, baseText, diffText, wanted,
           sourceLines, patchLines, outputLines, sourceIndex, i, result,
           normalizeArg, normalized, workspaceRoot, targetPath, resolved >>

splitVars == << lines, idx, buffer, rawOld, rawNew, recording, patches, segments >>
applyVars == << baseText, diffText, wanted, sourceLines, patchLines,
                outputLines, sourceIndex, i, result >>
pathVars == << normalizeArg, normalized, workspaceRoot, targetPath, resolved >>

Null == << "null" >>

----------------------------------------------------------------------------
(* String primitives of the JavaScript runtime, on lines.                  *)

StartsWith(s, p) == Len(s) >= Len(p) /\ SubSeq(s, 1, Len(p)) = p

Slice(s, n) == SubSeq(s, n + 1, Len(s))

IsSpace(c) == c \in {" ", "\t", "\r"}

RECURSIVE TrimStart(_)
TrimStart(s) ==
    IF s # <<>> /\ IsSpace(Head(s)) THEN TrimStart(Tail(s)) ELSE s

RECURSIVE TrimEnd(_)
TrimEnd(s) ==
    IF s # <<>> /\ IsSpace(s[Len(s)]) THEN TrimEnd(SubSeq(s, 1, Len(s) - 1)) ELSE s

Trim(s) == TrimEnd(TrimStart(s))

RECURSIVE BeforeTab(_)
BeforeTab(s) ==
    IF s = <<>> \/ Head(s) = "\t" THEN <<>> ELSE << Head(s) >> \o BeforeTab(Tail(s))

RemoveCR(s) == SelectSeq(s, LAMBDA c : c # "\r")

(* split("\n") without the removal of carriage returns. *)
SplitLinesKeepCR(text) == text

SplitLinesNoCR(text) == [k \in 1..Len(text) |-> RemoveCR(text[k])]

BackslashToSlash(s) == [k \in 1..Len(s) |-> IF s[k] = "\\" THEN "/" ELSE s[k]]

StripDotSlash(s) == IF StartsWith(s, << ".", "/" >>) THEN Slice(s, 2) ELSE s

Truthy(v) == v # Null /\ v # <<>>

DevNull == << "/", "d", "e", "v", "/", "n", "u", "l", "l" >>
PrefixA == << "a", "/" >>
PrefixB == << "b", "/" >>
OldHeader == << "-", "-", "-", " " >>
NewHeader == << "+", "+", "+", " " >>
HunkStart == << "@", "@", " " >>
DiffGit == << "d", "i", "f", "f", " ", "-", "-", "g", "i", "t", " " >>

----------------------------------------------------------------------------
(* normalizePatchPath                                                      *)

(* normalizePatchPath that trims before it strips the leading `./`. *)
normalizePatchPathTrimsFirst(rawPath) ==
    IF ~Truthy(rawPath) THEN Null
    ELSE LET trimmed == StripDotSlash(Trim(BackslashToSlash(rawPath)))
         IN  IF trimmed = <<>> \/ trimmed = DevNull THEN Null
             ELSE IF StartsWith(trimmed, PrefixA) \/ StartsWith(trimmed, PrefixB)
                  THEN Slice(trimmed, 2)
                  ELSE trimmed

normalizePatchPath(rawPath) ==
    IF ~Truthy(rawPath) THEN Null
    ELSE LET trimmed == Trim(StripDotSlash(BackslashToSlash(rawPath)))
         IN  IF trimmed = <<>> \/ trimmed = DevNull THEN Null
             ELSE IF StartsWith(trimmed, PrefixA) \/ StartsWith(trimmed, PrefixB)
                  THEN Slice(trimmed, 2)
                  ELSE trimmed

(* line.slice(4).split("\t")[0]?.trim() *)
HeaderPath(line) == Trim(BeforeTab(Slice(line, 4)))

IsPathHeader(line) == StartsWith(line, OldHeader) \/ StartsWith(line, NewHeader)

----------------------------------------------------------------------------
(* sanitizePatchTargets                                                    *)

NormalizedTargets(ts) ==
    { IF normalizePatchPath(ts[k]) # Null THEN normalizePatchPath(ts[k]) ELSE ts[k] :
        k \in { j \in 1..Len(ts) : ts[j] # <<>> } }

AcceptedOf(target) ==
    LET restful == normalizePatchPath(target)
    IN  IF Truthy(restful)
        THEN { restful, PrefixA \o restful, PrefixB \o restful }
        ELSE {}

(* The accepted set built from the last target alone. *)
AcceptedLastOnly(ts) ==
    IF ts = <<>> THEN {}
    ELSE UNION { AcceptedOf(t) : t \in NormalizedTargets(<< ts[Len(ts)] >>) }

Accepted(ts) == UNION { AcceptedOf(t) : t \in NormalizedTargets(ts) }

(* The test of lines 95-101 on one line: TRUE when the line makes the call throw. *)
Offends(line, accepted) ==
    /\ IsPathHeader(line)
    /\ LET candidate == HeaderPath(line)
       IN  /\ candidate # <<>>
           /\ candidate # DevNull
           /\ LET normalizedCandidate == normalizePatchPath(candidate)
              IN  \/ ~Truthy(normalizedCandidate)
                  \/ (normalizedCandidate \notin accepted /\ candidate \notin accepted)

SanPending == [status |-> "pending", candidate |-> Null]
SanOk == [status |-> "ok", candidate |-> Null]
SanThrow(c) == [status |-> "threw", candidate |-> c]

sanitizePatchTargets(text, ts) ==
    LET accepted == Accepted(ts)
        bad == { k \in 1..Len(text) : Offends(text[k], accepted) }
    IN  IF bad = {} THEN SanOk
        ELSE LET first == CHOOSE k \in bad : \A j \in bad : k <= j
             IN  SanThrow(HeaderPath(text[first]))

----------------------------------------------------------------------------
(* splitUnifiedDiffByFile.  The loop state is the record                   *)
(* [buffer, rawOld, rawNew, recording, patches].                           *)

SplitStart ==
    [buffer |-> <<>>, rawOld |-> Null, rawNew |-> Null, recording |-> FALSE,
     patches |-> <<>>]

ParsedFilePatch(st) ==
    [patchText |-> st.buffer,
     rawOldPath |-> st.rawOld,
     rawNewPath |-> st.rawNew,
     oldPath |-> normalizePatchPath(st.rawOld),
     newPath |-> normalizePatchPath(st.rawNew)]

(* pushPatch without the reset of rawOld/rawNew after a push. *)
pushPatchKeepsPaths(st) ==
    IF ~st.recording
    THEN [st EXCEPT !.buffer = <<>>, !.rawOld = Null, !.rawNew = Null]
    ELSE [st EXCEPT !.buffer = <<>>, !.recording = FALSE,
                    !.patches = Append(st.patches, ParsedFilePatch(st))]

pushPatch(st) ==
    IF ~st.recording
    THEN [st EXCEPT !.buffer = <<>>, !.rawOld = Null, !.rawNew = Null]
    ELSE [buffer |-> <<>>, rawOld |-> Null, rawNew |-> Null, recording |-> FALSE,
          patches |-> Append(st.patches, ParsedFilePatch(st))]

(* The path bookkeeping that keeps the first header of a segment. *)
TrackPathsFirstWins(st, line) ==
    IF StartsWith(line, OldHeader) /\ st.rawOld = Null
    THEN [st EXCEPT !.rawOld = HeaderPath(line)]
    ELSE IF StartsWith(line, NewHeader) /\ st.rawNew = Null
    THEN [st EXCEPT !.rawNew = HeaderPath(line)]
    ELSE st

(* Lines 182-186: the path bookkeeping after a line was buffered. *)
TrackPaths(st, line) ==
    IF StartsWith(line, OldHeader) THEN [st EXCEPT !.rawOld = HeaderPath(line)]
    ELSE IF StartsWith(line, NewHeader) THEN [st EXCEPT !.rawNew = HeaderPath(line)]
    ELSE st

StartsRecording(line) ==
    StartsWith(line, OldHeader) \/ StartsWith(line, NewHeader) \/ StartsWith(line, HunkStart)

(* The loop body without the flush on a `diff --git ` line. *)
SplitLineNoFlush(st, line) ==
    IF StartsWith(line, DiffGit)
    THEN [st EXCEPT !.buffer = Append(st.buffer, line), !.recording = TRUE]
    ELSE IF ~st.recording
         THEN IF StartsRecording(line)
              THEN TrackPaths([st EXCEPT !.buffer = << line >>, !.recording = TRUE], line)
              ELSE st
         ELSE TrackPaths([st EXCEPT !.buffer = Append(st.buffer, line)], line)

(* One iteration of the for-of loop of lines 163-187. *)
SplitLine(st, line) ==
    IF StartsWith(line, DiffGit)
    THEN [pushPatch(st) EXCEPT !.buffer = << line >>, !.recording = TRUE]
    ELSE IF ~st.recording
         THEN IF StartsRecording(line)
              THEN TrackPaths([st EXCEPT !.buffer = << line >>, !.recording = TRUE], line)
              ELSE st
         ELSE TrackPaths([st EXCEPT !.buffer = Append(st.buffer, line)], line)

(* The final filter letting every segment through. *)
RetainEverySegment(p) == TRUE

RetainSegment(p) == p.rawOldPath # Null \/ p.rawNewPath # Null

(* Lines 189-191: the last pushPatch and the final filter. *)
SplitFinish(st) == SelectSeq(pushPatch(st).patches, RetainSegment)

RECURSIVE SplitLoop(_, _, _)
SplitLoop(st, ls, k) ==
    IF k > Len(ls) THEN st ELSE SplitLoop(SplitLine(st, ls[k]), ls, k + 1)

splitUnifiedDiffByFile(text) ==
    SplitFinish(SplitLoop(SplitStart, SplitLinesNoCR(text), 1))

----------------------------------------------------------------------------
(* resolveWorkspacePath (src/lib/workspace.ts) with the POSIX path.resolve *)
(* of the runtime: paths are strings, compared character by character.     *)

(* s up to its first "/". *)
RECURSIVE FirstSegment(_)
FirstSegment(s) ==
    IF s = <<>> \/ Head(s) = "/" THEN <<>> ELSE << Head(s) >> \o FirstSegment(Tail(s))

(* s.split("/") *)
RECURSIVE SplitSegments(_)
SplitSegments(s) ==
    LET first == FirstSegment(s)
    IN  IF Len(first) = Len(s) THEN << first >>
        ELSE << first >> \o SplitSegments(Slice(s, Len(first) + 1))

(* The normalization of path.resolve: "" and "." are dropped, ".." removes *)
(* the segment before it and is dropped at the root.                       *)
RECURSIVE NormalizeSegments(_, _)
NormalizeSegments(segs, stack) ==
    IF segs = <<>> THEN stack
    ELSE LET g == Head(segs)
         IN  IF g = <<>> \/ g = << "." >> THEN NormalizeSegments(Tail(segs), stack)
             ELSE IF g = << ".", "." >>
                  THEN NormalizeSegments(Tail(segs),
                           IF stack = <<>> THEN <<>> ELSE SubSeq(stack, 1, Len(stack) - 1))
                  ELSE NormalizeSegments(Tail(segs), Append(stack, g))

RECURSIVE JoinSegments(_)
JoinSegments(stack) ==
    IF stack = <<>> THEN <<>>
    ELSE << "/" >> \o Head(stack) \o JoinSegments(Tail(stack))

IsAbsolute(path) == path # <<>> /\ Head(path) = "/"

(* path.resolve(root, target) for an absolute root. *)
pathResolve(root, target) ==
    LET full == IF IsAbsolute(target) THEN target ELSE root \o << "/" >> \o target
        stack == NormalizeSegments(SplitSegments(full), <<>>)
    IN  IF stack = <<>> THEN << "/" >> ELSE JoinSegments(stack)

AccessDenied == "Access denied: path escapes workspace root."

ResolveReturned(path) == [status |-> "returned", path |-> path, error |-> ""]
ResolveThrew(message) == [status |-> "threw", path |-> <<>>, error |-> message]

resolveWorkspacePath(root, target) ==
    LET r == pathResolve(root, target)
    IN  IF ~StartsWith(r, root) THEN ResolveThrew(AccessDenied) ELSE ResolveReturned(r)

----------------------------------------------------------------------------
(* applyUnifiedDiff: the hunk header grammar and the loop pieces.          *)

DigitChars == << "0", "1", "2", "3", "4", "5", "6", "7", "8", "9" >>

IsDigit(c) == \E k \in 1..Len(DigitChars) : DigitChars[k] = c

DigitValue(c) == (CHOOSE k \in 1..Len(DigitChars) : DigitChars[k] = c) - 1

(* First position at or after p that holds no digit: the end of a greedy \d*. *)
RECURSIVE DigitsEnd(_, _)
DigitsEnd(s, p) == IF p <= Len(s) /\ IsDigit(s[p]) THEN DigitsEnd(s, p + 1) ELSE p

HasAt(s, p, lit) == p + Len(lit) - 1 <= Len(s) /\ SubSeq(s, p, p + Len(lit) - 1) = lit

(* Position after the optional group (?:,(\d+))? tried at p. *)
AfterCount(s, p) ==
    IF HasAt(s, p, << "," >>) /\ DigitsEnd(s, p + 1) > p + 1 THEN DigitsEnd(s, p + 1) ELSE p

(* The pattern with the capture of newStart taken for oldStart. *)
hunkHeaderPatternNewStart(line) ==
    LET e1 == DigitsEnd(line, 5)
        c1 == AfterCount(line, e1)
        e2 == DigitsEnd(line, c1 + 2)
        c2 == AfterCount(line, e2)
    IN  IF /\ HasAt(line, 1, << "@", "@", " ", "-" >>)
           /\ e1 > 5
           /\ HasAt(line, c1, << " ", "+" >>)
           /\ e2 > c1 + 2
           /\ HasAt(line, c2, << " ", "@", "@" >>)
        THEN SubSeq(line, c1 + 2, e2 - 1)
        ELSE Null

(* The pattern cut after the old range: /^@@ -(\d+)/. *)
hunkHeaderPatternOldOnly(line) ==
    IF HasAt(line, 1, << "@", "@", " ", "-" >>) /\ DigitsEnd(line, 5) > 5
    THEN SubSeq(line, 5, DigitsEnd(line, 5) - 1)
    ELSE Null

(* hunkHeaderPattern.exec(line): match[1], or Null when there is no match. *)
hunkHeaderPattern(line) ==
    LET e1 == DigitsEnd(line, 5)
        c1 == AfterCount(line, e1)
        e2 == DigitsEnd(line, c1 + 2)
        c2 == AfterCount(line, e2)
    IN  IF /\ HasAt(line, 1, << "@", "@", " ", "-" >>)
           /\ e1 > 5
           /\ HasAt(line, c1, << " ", "+" >>)
           /\ e2 > c1 + 2
           /\ HasAt(line, c2, << " ", "@", "@" >>)
        THEN SubSeq(line, 5, e1 - 1)
        ELSE Null

RECURSIVE parseInt(_)
parseInt(ds) ==
    IF ds = <<>> THEN 0
    ELSE 10 * parseInt(SubSeq(ds, 1, Len(ds) - 1)) + DigitValue(ds[Len(ds)])

Max(a, b) == IF a >= b THEN a ELSE b

(* startOld without the conversion to a zero-based index. *)
StartOldOneBased(match) == Max(parseInt(match), 0)

(* Line 211. *)
StartOld(match) == Max(parseInt(match) - 1, 0)

(* Lines 213-220: the catch-up copy from cursor k (zero-based) up to startOld. *)
RECURSIVE CatchUp(_, _, _, _)
CatchUp(src, k, out, startOld) ==
    IF k < startOld
    THEN IF k >= Len(src)
         THEN [threw |-> TRUE, sourceIndex |-> k, outputLines |-> out]
         ELSE CatchUp(src, k + 1, Append(out, src[k + 1]), startOld)
    ELSE [threw |-> FALSE, sourceIndex |-> k, outputLines |-> out]

(* sourceLines[k] ?? "" for the zero-based index k. *)
LineOrEmpty(src, k) == IF k < Len(src) THEN src[k + 1] ELSE <<>>

(* The trailing copy starting one line late. *)
TrailingCopyOffByOne(src, k, out) ==
    IF k + 1 < Len(src) THEN out \o SubSeq(src, k + 2, Len(src)) ELSE out

(* Lines 272-274: the trailing copy from cursor k. *)
TrailingCopy(src, k, out) ==
    IF k < Len(src) THEN out \o SubSeq(src, k + 1, Len(src)) ELSE out

(* Array.prototype.join("\n"), as a text: [] and [""] both give "". *)
Join(out) == IF out = <<>> THEN << <<>> >> ELSE out

NoNewlineStart == << "\\", " ", "N", "o", " ", "n", "e", "w", "l", "i", "n", "e" >>

IsHeaderLine(line) ==
    StartsWith(line, HunkStart) \/ StartsWith(line, OldHeader) \/ StartsWith(line, NewHeader)

(* A hunk body line that reaches the marker dispatch of lines 239-266. *)
IsMarkerLine(line) ==
    line # <<>> /\ ~IsHeaderLine(line) /\ ~StartsWith(line, NoNewlineStart)

ApplyPending == [status |-> "pending", text |-> <<>>, error |-> ""]
Returned(text) == [status |-> "returned", text |-> text, error |-> ""]
Threw(message) == [status |-> "threw", text |-> <<>>, error |-> message]

InvalidHunkHeader == "Invalid hunk header"
HunkExceeds == "Patch hunk exceeds original file length."
ContextMismatch == "Context mismatch while applying patch."
DeletionMismatch == "Deletion mismatch while applying patch."
UnsupportedLine == "Unsupported patch line"

(* applyUnifiedDiff as a function of its arguments: the loops of lines     *)
(* 200-270 from the zero-based diff index k, with cursor cur and output    *)
(* out; body tells the while loop of lines 223-269 from the for loop.      *)
RECURSIVE ApplyLoop(_, _, _, _, _, _)
ApplyLoop(src, pl, k, cur, out, body) ==
    IF ~body
    THEN IF k >= Len(pl) THEN Returned(Join(TrailingCopy(src, cur, out)))
         ELSE LET line == pl[k + 1]
              IN  IF line = <<>> \/ ~StartsWith(line, HunkStart)
                  THEN ApplyLoop(src, pl, k + 1, cur, out, FALSE)
                  ELSE IF hunkHeaderPattern(line) = Null THEN Threw(InvalidHunkHeader)
                  ELSE LET c == CatchUp(src, cur, out, StartOld(hunkHeaderPattern(line)))
                       IN  IF c.threw THEN Threw(HunkExceeds)
                           ELSE ApplyLoop(src, pl, k + 1, c.sourceIndex, c.outputLines, TRUE)
    ELSE IF k >= Len(pl) THEN ApplyLoop(src, pl, k + 1, cur, out, FALSE)
         ELSE LET hunkLine == pl[k + 1]
                  marker == Head(hunkLine)
                  payload == Slice(hunkLine, 1)
                  actual == LineOrEmpty(src, cur)
              IN  IF hunkLine = <<>> THEN ApplyLoop(src, pl, k + 1, cur, out, TRUE)
                  ELSE IF IsHeaderLine(hunkLine) THEN ApplyLoop(src, pl, k, cur, out, FALSE)
                  ELSE IF StartsWith(hunkLine, NoNewlineStart)
                       THEN ApplyLoop(src, pl, k + 1, cur, out, TRUE)
                  ELSE IF marker = " "
                       THEN IF payload # actual THEN Threw(ContextMismatch)
                            ELSE ApplyLoop(src, pl, k + 1, cur + 1, Append(out, actual), TRUE)
                  ELSE IF marker = "-"
                       THEN IF payload # actual THEN Threw(DeletionMismatch)
                            ELSE ApplyLoop(src, pl, k + 1, cur + 1, out, TRUE)
                  ELSE IF marker = "+"
                       THEN ApplyLoop(src, pl, k + 1, cur, Append(out, payload), TRUE)
                  ELSE IF Trim(<< marker >>) = <<>>
                       THEN ApplyLoop(src, pl, k + 1, cur, Append(out, <<>>), TRUE)
                  ELSE Threw(UnsupportedLine)

applyUnifiedDiff(base, diff) ==
    ApplyLoop(SplitLinesNoCR(base), SplitLinesNoCR(diff), 0, 0, <<>>, FALSE)

----------------------------------------------------------------------------
(* A unified diff from the text old to the text new, as diff -u prints it  *)
(* with unlimited context: the common leading lines as context, then the   *)
(* rest of old deleted and the rest of new added, in one hunk.             *)

(* The lines of a file: a text without the empty piece after a final newline. *)
FileLines(text) ==
    IF text[Len(text)] = <<>> THEN SubSeq(text, 1, Len(text) - 1) ELSE text

(* Line k of the file ends with a newline. *)
HasNewline(text, k) == k < Len(FileLines(text)) \/ text[Len(text)] = <<>>

Min(a, b) == IF a <= b THEN a ELSE b

CommonPrefix(old, new) ==
    LET n == Min(Len(FileLines(old)), Len(FileLines(new)))
        same(k) == /\ FileLines(old)[k] = FileLines(new)[k]
                   /\ HasNewline(old, k) = HasNewline(new, k)
    IN  CHOOSE c \in 0..n :
            /\ \A k \in 1..c : same(k)
            /\ c < n => ~same(c + 1)

RECURSIVE ToDigits(_)
ToDigits(n) ==
    IF n < 10 THEN << DigitChars[n + 1] >>
    ELSE ToDigits(n \div 10) \o << DigitChars[(n % 10) + 1] >>

(* The range of a hunk that covers a whole file of n lines. *)
Range(n) ==
    IF n = 0 THEN << "0", ",", "0" >>
    ELSE IF n = 1 THEN << "1" >>
    ELSE << "1", "," >> \o ToDigits(n)

NoNewlineMarker ==
    NoNewlineStart \o << " ", "a", "t", " ", "e", "n", "d", " ", "o", "f", " ",
                         "f", "i", "l", "e" >>

(* The lines from..Len of the file, each with the marker sign in front. *)
RECURSIVE Marked(_, _, _)
Marked(text, from, sign) ==
    IF from > Len(FileLines(text)) THEN <<>>
    ELSE << << sign >> \o FileLines(text)[from] >>
         \o (IF HasNewline(text, from) THEN <<>> ELSE << NoNewlineMarker >>)
         \o Marked(text, from + 1, sign)

GenFileName == << "f" >>

GenerateDiff(old, new) ==
    IF old = new THEN << <<>> >>
    ELSE LET c == CommonPrefix(old, new)
         IN  << OldHeader \o PrefixA \o GenFileName,
                NewHeader \o PrefixB \o GenFileName,
                << "@", "@", " ", "-" >> \o Range(Len(FileLines(old)))
                    \o << " ", "+" >> \o Range(Len(FileLines(new))) \o << " ", "@", "@" >> >>
             \o [k \in 1..c |-> << " " >> \o FileLines(old)[k]]
             \o Marked(old, c + 1, "-")
             \o Marked(new, c + 1, "+")
             \o << <<>> >>

----------------------------------------------------------------------------
(* Inputs.                                                                 *)

TextsUpTo(S, n) == UNION { [1..k -> S] : k \in 1..n }

MaxValidateLines == 2
MaxTargets == 1
MaxSplitLines == 5
MaxBaseLines == 2
MaxDiffLines == 2
MaxGenLines == 2

PathX == << "x" >>
PathY == << "y" >>
PathAX == PrefixA \o PathX
PathBX == PrefixB \o PathX
PathAAX == PrefixA \o PathAX
PathBAAX == PrefixB \o PathAAX
PathAAAX == PrefixA \o PathAAX
PathOnlyPrefix == PrefixA
PathDotBackslash == << ".", "\\", "x" >>
PathTabbed == << "y", " ", "\t", "1" >>

HunkHeader1 == << "@", "@", " ", "-", "1", " ", "+", "1", " ", "@", "@" >>

(* A line that only removing the carriage return turns into "--- y". *)
SmuggledHeader == << "-", "\r", "-", "-", " ", "y" >>

ValidateLines ==
    { OldHeader \o q : q \in { PathX, PathAX, PathAAX, PathAAAX, PathY, DevNull,
                               PathOnlyPrefix, PathTabbed } }
    \cup { NewHeader \o q : q \in { PathBX, PathBAAX, DevNull, PathDotBackslash, <<>> } }
    \cup { SmuggledHeader, HunkHeader1 }

ValidatePatches == TextsUpTo(ValidateLines, MaxValidateLines)

TargetPaths == { PathX, PathAAX, PathY, DevNull, <<>> }

TargetLists == { <<>> } \cup TextsUpTo(TargetPaths, MaxTargets)

PathAO == PrefixA \o << "o" >>
PathBN == PrefixB \o << "n" >>

SplitLines ==
    { DiffGit \o PathX,
      OldHeader \o PathAX \o << "\r" >>,
      OldHeader \o PathAO,
      NewHeader \o PathBN,
      NewHeader \o DevNull,
      HunkHeader1,
      << "i", "n", "d", "e", "x" >> }

SplitPatches == TextsUpTo(SplitLines, MaxSplitLines)

LineA == << "a" >>
LineBCR == << "b", "\r" >>

BaseLines == { LineA, <<>>, LineBCR }

ApplyBases == TextsUpTo(BaseLines, MaxBaseLines)

HunkHeader2 == << "@", "@", " ", "-", "2", ",", "1", " ", "+", "2", " ", "@", "@" >>
HunkHeader3 == << "@", "@", " ", "-", "3", " ", "+", "3", ",", "1", " ", "@", "@" >>
BadHunkHeader == << "@", "@", " ", "-", "1", " ", "@", "@" >>
HunkHeaderFar == << "@", "@", " ", "-", "9", "9", " ", "+", "1", " ", "@", "@" >>
DashDashLine == << "-", "-", " ", "a" >>

(* What the scanning loop can meet first: a valid header, an invalid one, *)
(* a line that is no hunk header.                                          *)
LeadLines == { HunkHeader1, HunkHeader2, BadHunkHeader, OldHeader \o LineA }

DiffLines ==
    { HunkHeader1, HunkHeader2, HunkHeader3, BadHunkHeader, HunkHeaderFar,
      << " " >> \o LineA, << " " >>,
      << "-" >> \o LineA, << "-" >>,
      << "+" >> \o LineA,
      << "-" >> \o DashDashLine,
      <<>>,
      << "\t" >>,
      << "i", "n", "d", "e", "x" >> }

(* The lines a diff can hold before its last line. *)
CoreDiffLines ==
    { << " " >> \o LineA, << "-" >> \o LineA, << "+" >> \o LineA, << "-" >>,
      HunkHeader2, <<>> }

(* A lead line followed by up to MaxDiffLines further lines, the last of   *)
(* them any line of DiffLines.                                             *)
ApplyDiffs ==
    { << l >> \o mid \o last :
        l \in LeadLines,
        mid \in { <<>> } \cup TextsUpTo(CoreDiffLines, MaxDiffLines - 1),
        last \in { <<>> } \cup { << t >> : t \in DiffLines } }

MaxHunkBody == 2

HunkBodyLines == { << " " >> \o LineA, << "-" >> \o LineA, << "+" >> \o LineA }

(* Two hunks: a body of up to MaxHunkBody lines, then a hunk with one line. *)
TwoHunkDiffs ==
    { << HunkHeader1 >> \o b1 \o << h2, l2 >> :
        b1 \in { <<>> } \cup TextsUpTo(HunkBodyLines, MaxHunkBody),
        h2 \in { HunkHeader2, HunkHeader3 },
        l2 \in HunkBodyLines }

GenLines == { LineA, << "b" >>, <<>>, DashDashLine }

GenTexts == TextsUpTo(GenLines, MaxGenLines)

MaxAffix == 2
MaxTargetLen == 5

PathChars == { "a", "b", "/", ".", "\\", " ", "x" }

Affixes == { <<>> } \cup TextsUpTo(PathChars, MaxAffix)

BackslashDevNull == << "\\", "d", "e", "v", "\\", "n", "u", "l", "l" >>

(* null, and strings made of a prefix, a core and a one-character ending. *)
NormalizeInputs ==
    { Null } \cup
    { p \o c \o q : p \in Affixes,
                    c \in { <<>>, DevNull, BackslashDevNull, PathAX },
                    q \in { <<>>, << " " >>, << "x" >> } }

RootW == << "/", "w" >>
RootWV == << "/", "w", "/", "v" >>

WorkspaceRoots == { RootW, RootWV }

TargetChars == { "w", "/", "." }

ResolveTargets == { <<>> } \cup TextsUpTo(TargetChars, MaxTargetLen)

----------------------------------------------------------------------------
(* State machine.                                                          *)

SplitIdle ==
    /\ lines = <<>> /\ idx = 0 /\ buffer = <<>> /\ rawOld = Null /\ rawNew = Null
    /\ recording = FALSE /\ patches = <<>> /\ segments = <<>>

ApplyIdle ==
    /\ baseText = <<>> /\ diffText = <<>> /\ wanted = <<>> /\ sourceLines = <<>>
    /\ patchLines = <<>> /\ outputLines = <<>> /\ sourceIndex = 0 /\ i = 0
    /\ result = ApplyPending

ResolvePending == [status |-> "pending", path |-> <<>>, error |-> ""]

PathIdle ==
    /\ normalizeArg = <<>> /\ normalized = <<>> /\ workspaceRoot = <<>>
    /\ targetPath = <<>> /\ resolved = ResolvePending

(* The validator, then the splitter, on one patch (spec section 2).        *)
InitValidate ==
    /\ call = "validate"
    /\ pc = "sanitize"
    /\ patchText \in ValidatePatches
    /\ targets \in TargetLists
    /\ sanResult = SanPending
    /\ SplitIdle
    /\ ApplyIdle
    /\ PathIdle

CallSanitize ==
    /\ call = "validate"
    /\ pc = "sanitize"
    /\ sanResult' = sanitizePatchTargets(patchText, targets)
    /\ pc' = "split"
    /\ UNCHANGED << call, pathVars, patchText, targets, splitVars, applyVars >>

CallSplit ==
    /\ call = "validate"
    /\ pc = "split"
    /\ segments' = splitUnifiedDiffByFile(patchText)
    /\ pc' = "done"
    /\ UNCHANGED << call, pathVars, patchText, targets, sanResult, lines, idx, buffer, rawOld,
                    rawNew, recording, patches, applyVars >>

NextValidate == CallSanitize \/ CallSplit

SpecValidate == InitValidate /\ [][NextValidate]_vars

(* splitUnifiedDiffByFile, one loop iteration per step.                    *)
InitSplit ==
    /\ call = "split"
    /\ pc = "loop"
    /\ patchText \in SplitPatches
    /\ targets = <<>>
    /\ sanResult = SanPending
    /\ lines = SplitLinesNoCR(patchText)
    /\ idx = 1
    /\ buffer = <<>> /\ rawOld = Null /\ rawNew = Null /\ recording = FALSE
    /\ patches = <<>> /\ segments = <<>>
    /\ ApplyIdle
    /\ PathIdle

SplitState ==
    [buffer |-> buffer, rawOld |-> rawOld, rawNew |-> rawNew,
     recording |-> recording, patches |-> patches]

SplitAssign(st) ==
    /\ buffer' = st.buffer
    /\ rawOld' = st.rawOld
    /\ rawNew' = st.rawNew
    /\ recording' = st.recording
    /\ patches' = st.patches

SplitIterate ==
    /\ call = "split" /\ pc = "loop" /\ idx <= Len(lines)
    /\ SplitAssign(SplitLine(SplitState, lines[idx]))
    /\ idx' = idx + 1
    /\ UNCHANGED << call, pathVars, pc, patchText, targets, sanResult, lines, segments, applyVars >>

(* A `diff --git ` line: lines 164-169. *)
SplitOnDiffGit == SplitIterate /\ StartsWith(lines[idx], DiffGit)

(* Not recording, a header or hunk line: lines 172-174 and 182-186. *)
SplitOnStart ==
    SplitIterate /\ ~StartsWith(lines[idx], DiffGit) /\ ~recording
                 /\ StartsRecording(lines[idx])

(* Not recording, any other line: line 176. *)
SplitOnDiscard ==
    SplitIterate /\ ~StartsWith(lines[idx], DiffGit) /\ ~recording
                 /\ ~StartsRecording(lines[idx])

(* Recording: lines 179 and 182-186. *)
SplitOnAppend == SplitIterate /\ ~StartsWith(lines[idx], DiffGit) /\ recording

SplitReturn ==
    /\ call = "split" /\ pc = "loop" /\ idx > Len(lines)
    /\ SplitAssign(pushPatch(SplitState))
    /\ segments' = SplitFinish(SplitState)
    /\ pc' = "done"
    /\ UNCHANGED << call, pathVars, patchText, targets, sanResult, lines, idx, applyVars >>

NextSplit ==
    SplitOnDiffGit \/ SplitOnStart \/ SplitOnDiscard \/ SplitOnAppend \/ SplitReturn

SpecSplit == InitSplit /\ [][NextSplit]_vars

(* applyUnifiedDiff, one loop iteration per step.  i and sourceIndex are   *)
(* zero-based as in the code.                                              *)
InitApply ==
    /\ call = "apply"
    /\ pc = "scan"
    /\ patchText = <<>> /\ targets = <<>> /\ sanResult = SanPending
    /\ SplitIdle
    /\ PathIdle
    /\ \/ /\ baseText \in ApplyBases
          /\ diffText \in ApplyDiffs \cup TwoHunkDiffs
          /\ wanted = <<>>
       \/ /\ baseText \in GenTexts
          /\ wanted \in GenTexts
          /\ diffText = GenerateDiff(baseText, wanted)
    /\ sourceLines = SplitLinesNoCR(baseText)
    /\ patchLines = SplitLinesNoCR(diffText)
    /\ outputLines = <<>>
    /\ sourceIndex = 0
    /\ i = 0
    /\ result = ApplyPending

ApplyFixed == << call, pathVars, patchText, targets, sanResult, splitVars, baseText, diffText,
                 wanted, sourceLines, patchLines >>

Scanning == call = "apply" /\ pc = "scan" /\ i < Len(patchLines)
InBody == call = "apply" /\ pc = "body" /\ i < Len(patchLines)

CurLine == patchLines[i + 1]

Throw(message) ==
    /\ result' = Threw(message)
    /\ pc' = "done"
    /\ UNCHANGED << ApplyFixed, outputLines, sourceIndex, i >>

(* Lines 202-204: a line that does not begin with `@@ `. *)
ScanSkip ==
    /\ Scanning
    /\ CurLine = <<>> \/ ~StartsWith(CurLine, HunkStart)
    /\ i' = i + 1
    /\ UNCHANGED << ApplyFixed, pc, outputLines, sourceIndex, result >>

(* Lines 206-209. *)
ScanInvalidHeader ==
    /\ Scanning
    /\ StartsWith(CurLine, HunkStart)
    /\ hunkHeaderPattern(CurLine) = Null
    /\ Throw(InvalidHunkHeader)

(* The valid header without the i++ of line 222. *)
ScanHunkHeaderNoAdvance ==
    /\ Scanning
    /\ StartsWith(CurLine, HunkStart)
    /\ hunkHeaderPattern(CurLine) # Null
    /\ LET c == CatchUp(sourceLines, sourceIndex, outputLines,
                        StartOld(hunkHeaderPattern(CurLine)))
       IN  /\ ~c.threw
           /\ outputLines' = c.outputLines
           /\ sourceIndex' = c.sourceIndex
    /\ pc' = "body"
    /\ UNCHANGED << ApplyFixed, i, result >>

(* Lines 206-222: a valid header, the catch-up copy, and on to the body. *)
ScanHunkHeader ==
    /\ Scanning
    /\ StartsWith(CurLine, HunkStart)
    /\ hunkHeaderPattern(CurLine) # Null
    /\ LET c == CatchUp(sourceLines, sourceIndex, outputLines,
                        StartOld(hunkHeaderPattern(CurLine)))
       IN  /\ ~c.threw
           /\ outputLines' = c.outputLines
           /\ sourceIndex' = c.sourceIndex
    /\ i' = i + 1
    /\ pc' = "body"
    /\ UNCHANGED << ApplyFixed, result >>

(* Lines 213-217: the catch-up copy runs off the end of the source. *)
ScanHunkExceeds ==
    /\ Scanning
    /\ StartsWith(CurLine, HunkStart)
    /\ hunkHeaderPattern(CurLine) # Null
    /\ CatchUp(sourceLines, sourceIndex, outputLines,
               StartOld(hunkHeaderPattern(CurLine))).threw
    /\ Throw(HunkExceeds)

(* The empty line pushed to the output instead of skipped. *)
BodyEmptyLineEmits ==
    /\ InBody
    /\ CurLine = <<>>
    /\ outputLines' = Append(outputLines, <<>>)
    /\ i' = i + 1
    /\ UNCHANGED << ApplyFixed, pc, sourceIndex, result >>

(* Lines 225-228. *)
BodyEmptyLine ==
    /\ InBody
    /\ CurLine = <<>>
    /\ i' = i + 1
    /\ UNCHANGED << ApplyFixed, pc, outputLines, sourceIndex, result >>

(* The header line consumed by the body instead of handed back. *)
BodyHeaderLineConsumes ==
    /\ InBody
    /\ CurLine # <<>>
    /\ IsHeaderLine(CurLine)
    /\ i' = i + 1
    /\ pc' = "scan"
    /\ UNCHANGED << ApplyFixed, outputLines, sourceIndex, result >>

(* Lines 229-232: i--, break, then the i++ of the for loop. *)
BodyHeaderLine ==
    /\ InBody
    /\ CurLine # <<>>
    /\ IsHeaderLine(CurLine)
    /\ pc' = "scan"
    /\ UNCHANGED << ApplyFixed, i, outputLines, sourceIndex, result >>

(* Lines 234-237. *)
BodyNoNewline ==
    /\ InBody
    /\ CurLine # <<>>
    /\ ~IsHeaderLine(CurLine)
    /\ StartsWith(CurLine, NoNewlineStart)
    /\ i' = i + 1
    /\ UNCHANGED << ApplyFixed, pc, outputLines, sourceIndex, result >>

Marker == Head(CurLine)
Payload == Slice(CurLine, 1)

(* Lines 242-251. *)
BodyContext ==
    /\ InBody /\ IsMarkerLine(CurLine) /\ Marker = " "
    /\ Payload = LineOrEmpty(sourceLines, sourceIndex)
    /\ outputLines' = Append(outputLines, LineOrEmpty(sourceLines, sourceIndex))
    /\ sourceIndex' = sourceIndex + 1
    /\ i' = i + 1
    /\ UNCHANGED << ApplyFixed, pc, result >>

BodyContextMismatch ==
    /\ InBody /\ IsMarkerLine(CurLine) /\ Marker = " "
    /\ Payload # LineOrEmpty(sourceLines, sourceIndex)
    /\ Throw(ContextMismatch)

(* Lines 252-259. *)
BodyDelete ==
    /\ InBody /\ IsMarkerLine(CurLine) /\ Marker = "-"
    /\ Payload = LineOrEmpty(sourceLines, sourceIndex)
    /\ sourceIndex' = sourceIndex + 1
    /\ i' = i + 1
    /\ UNCHANGED << ApplyFixed, pc, outputLines, result >>

BodyDeleteMismatch ==
    /\ InBody /\ IsMarkerLine(CurLine) /\ Marker = "-"
    /\ Payload # LineOrEmpty(sourceLines, sourceIndex)
    /\ Throw(DeletionMismatch)

(* Lines 260-261. *)
BodyAdd ==
    /\ InBody /\ IsMarkerLine(CurLine) /\ Marker = "+"
    /\ outputLines' = Append(outputLines, Payload)
    /\ i' = i + 1
    /\ UNCHANGED << ApplyFixed, pc, sourceIndex, result >>

(* Lines 262-263: marker.trim() === "" for a marker other than " ". *)
BodyBlankMarker ==
    /\ InBody /\ IsMarkerLine(CurLine) /\ Marker \notin { " ", "-", "+" }
    /\ Trim(<< Marker >>) = <<>>
    /\ outputLines' = Append(outputLines, <<>>)
    /\ i' = i + 1
    /\ UNCHANGED << ApplyFixed, pc, sourceIndex, result >>

(* The unsupported line skipped instead of rejected. *)
BodyUnsupportedSkips ==
    /\ InBody /\ IsMarkerLine(CurLine) /\ Marker \notin { " ", "-", "+" }
    /\ Trim(<< Marker >>) # <<>>
    /\ i' = i + 1
    /\ UNCHANGED << ApplyFixed, pc, outputLines, sourceIndex, result >>

(* Lines 264-266. *)
BodyUnsupported ==
    /\ InBody /\ IsMarkerLine(CurLine) /\ Marker \notin { " ", "-", "+" }
    /\ Trim(<< Marker >>) # <<>>
    /\ Throw(UnsupportedLine)

(* Line 223 fails at the end of the diff; then the i++ of the for loop. *)
BodyExhausted ==
    /\ call = "apply" /\ pc = "body" /\ i >= Len(patchLines)
    /\ i' = i + 1
    /\ pc' = "scan"
    /\ UNCHANGED << ApplyFixed, outputLines, sourceIndex, result >>

(* Lines 272-276: the trailing copy and the return. *)
ReturnResult ==
    /\ call = "apply" /\ pc = "scan" /\ i >= Len(patchLines)
    /\ outputLines' = TrailingCopy(sourceLines, sourceIndex, outputLines)
    /\ sourceIndex' = Max(sourceIndex, Len(sourceLines))
    /\ result' = Returned(Join(outputLines'))
    /\ pc' = "done"
    /\ UNCHANGED << ApplyFixed, i >>

NextApply ==
    \/ ScanSkip \/ ScanInvalidHeader \/ ScanHunkHeader \/ ScanHunkExceeds
    \/ BodyEmptyLine \/ BodyHeaderLine \/ BodyNoNewline
    \/ BodyContext \/ BodyContextMismatch \/ BodyDelete \/ BodyDeleteMismatch
    \/ BodyAdd \/ BodyBlankMarker \/ BodyUnsupported \/ BodyExhausted
    \/ ReturnResult

SpecApply == InitApply /\ [][NextApply]_vars

ValidateIdle == patchText = <<>> /\ targets = <<>> /\ sanResult = SanPending

(* normalizePatchPath on one input.                                        *)
InitNormalize ==
    /\ call = "normalize"
    /\ pc = "call"
    /\ normalizeArg \in NormalizeInputs
    /\ normalized = <<>>
    /\ workspaceRoot = <<>> /\ targetPath = <<>> /\ resolved = ResolvePending
    /\ ValidateIdle /\ SplitIdle /\ ApplyIdle

CallNormalize ==
    /\ call = "normalize"
    /\ pc = "call"
    /\ normalized' = normalizePatchPath(normalizeArg)
    /\ pc' = "done"
    /\ UNCHANGED << call, normalizeArg, workspaceRoot, targetPath, resolved, patchText,
                    targets, sanResult, splitVars, applyVars >>

NextNormalize == CallNormalize

SpecNormalize == InitNormalize /\ [][NextNormalize]_vars

(* resolveWorkspacePath on one target path.                                *)
InitResolve ==
    /\ call = "resolve"
    /\ pc = "call"
    /\ workspaceRoot \in WorkspaceRoots
    /\ targetPath \in ResolveTargets
    /\ resolved = ResolvePending
    /\ normalizeArg = <<>> /\ normalized = <<>>
    /\ ValidateIdle /\ SplitIdle /\ ApplyIdle

CallResolve ==
    /\ call = "resolve"
    /\ pc = "call"
    /\ resolved' = resolveWorkspacePath(workspaceRoot, targetPath)
    /\ pc' = "done"
    /\ UNCHANGED << call, normalizeArg, normalized, workspaceRoot, targetPath, patchText,
                    targets, sanResult, splitVars, applyVars >>

NextResolve == CallResolve

SpecResolve == InitResolve /\ [][NextResolve]_vars

Init == InitValidate \/ InitSplit \/ InitApply \/ InitNormalize \/ InitResolve

Next == NextValidate \/ NextSplit \/ NextApply \/ NextNormalize \/ NextResolve

Spec == Init /\ [][Next]_vars

----------------------------------------------------------------------------
(* Claims about sanitizePatchTargets and the validator/splitter pipeline.  *)

NonEmptyTargets == { targets[k] : k \in { j \in 1..Len(targets) : targets[j] # <<>> } }

SegmentPaths == UNION { { segments[k].oldPath, segments[k].newPath } : k \in 1..Len(segments) }

(* C1: when sanitizePatchTargets(P, S) returns without throwing, every     *)
(* segment of splitUnifiedDiffByFile(P) has oldPath and newPath null or    *)
(* equal to normalizePatchPath(t) for a non-empty target t of S.           *)
C1_PipelineCannotBeBypassed ==
    (call = "validate" /\ pc = "done" /\ sanResult.status = "ok") =>
        \A q \in SegmentPaths :
            q = Null \/ \E t \in NonEmptyTargets : q = normalizePatchPath(t)

(* The candidates of the path headers of the patch, as sanitizePatchTargets reads them. *)
Candidates ==
    { HeaderPath(patchText[k]) :
        k \in { j \in 1..Len(patchText) : IsPathHeader(patchText[j]) } } \ { <<>>, DevNull }

SamePatch(p, headers) == Len(p) = Len(headers) /\ \A k \in 1..Len(p) : p[k] = headers[k]

(* C2: sanitizePatchTargets returns normally only if every header with a   *)
(* non-empty candidate other than /dev/null normalizes to the normalized   *)
(* form of some target; with targets = [p] the headers `--- a/p`,          *)
(* `+++ b/p` pass, and a header naming another file q makes it throw an    *)
(* error naming such a file.                                               *)
C2_AllowListSound ==
    (call = "validate" /\ pc # "sanitize") =>
        /\ sanResult.status = "ok" =>
              \A c \in Candidates :
                  \E t \in NonEmptyTargets :
                      /\ normalizePatchPath(t) # Null
                      /\ normalizePatchPath(c) = normalizePatchPath(t)
        /\ \A t \in TargetPaths \ { <<>>, DevNull } :
              targets = << t >> =>
                  /\ SamePatch(patchText, << OldHeader \o PrefixA \o t, NewHeader \o PrefixB \o t >>)
                        => sanResult.status = "ok"
                  /\ (\E c \in Candidates : normalizePatchPath(c) # normalizePatchPath(t))
                        => /\ sanResult.status = "threw"
                           /\ normalizePatchPath(sanResult.candidate) # normalizePatchPath(t)

(* The allow set of the specification: each non-empty target normalized once. *)
AllowedOnce ==
    UNION { { r, PrefixA \o r, PrefixB \o r } :
              r \in { normalizePatchPath(t) : t \in NonEmptyTargets } \ { Null } }

RejectedByRule(line) ==
    /\ IsPathHeader(line)
    /\ HeaderPath(line) \notin { <<>>, DevNull }
    /\ LET c == HeaderPath(line)
           n == normalizePatchPath(c)
       IN  ~Truthy(n) \/ (n \notin AllowedOnce /\ c \notin AllowedOnce)

(* C3: with A built from each non-empty target normalized once, the call   *)
(* throws exactly when some header has a non-empty, non-/dev/null          *)
(* candidate whose normalization is null/empty or whose normalized and raw *)
(* forms are both outside A, and the error names the first such candidate. *)
C3_ExactDecisionRule ==
    (call = "validate" /\ pc # "sanitize") =>
        LET bad == { k \in 1..Len(patchText) : RejectedByRule(patchText[k]) }
        IN  /\ sanResult.status = "threw" <=> bad # {}
            /\ bad # {} =>
                  sanResult.candidate =
                      HeaderPath(patchText[CHOOSE k \in bad : \A j \in bad : k <= j])

----------------------------------------------------------------------------
(* Claims about applyUnifiedDiff.                                          *)

(* C4: a unified diff correctly generated from T to T' (any line contents, *)
(* with or without a final newline, T possibly empty) applied to T gives   *)
(* T'.                                                                     *)
C4_RoundTrip ==
    (call = "apply" /\ pc = "done" /\ wanted # <<>>) => result = Returned(wanted)

(* Line k (one-based) of the diff comes after a valid hunk header. *)
AfterValidHeader(k) ==
    \E h \in 1..(k - 1) :
        StartsWith(patchLines[h], HunkStart) /\ hunkHeaderPattern(patchLines[h]) # Null

BodyShaped(line) == line # <<>> /\ Head(line) \in { " ", "-", "+" }

(* C5: every diff line after a valid hunk header that begins with ' ', '-' *)
(* or '+' is applied (checked against the source and/or appended to the    *)
(* output) or makes the call throw; none is passed over without effect.    *)
C5_NoSilentDegradation ==
    [][ (/\ call = "apply" /\ pc # "done" /\ i < Len(patchLines)
         /\ i' = i + 1
         /\ BodyShaped(CurLine)
         /\ AfterValidHeader(i + 1))
        => (outputLines' # outputLines \/ sourceIndex' # sourceIndex) ]_vars

AtMarker(m) == InBody /\ IsMarkerLine(CurLine) /\ Marker = m

CursorOnLine == sourceIndex < Len(sourceLines)

(* C6: a '-' line succeeds only if the cursor indexes an existing source   *)
(* line equal to the payload; then the cursor advances by one and nothing  *)
(* is appended; in every other case the call throws "Deletion mismatch"    *)
(* and returns no value.                                                   *)
C6_DeletionLines ==
    [][ AtMarker("-") =>
          IF CursorOnLine /\ Payload = sourceLines[sourceIndex + 1]
          THEN /\ sourceIndex' = sourceIndex + 1
               /\ outputLines' = outputLines
               /\ result' = ApplyPending
          ELSE /\ result' = Threw(DeletionMismatch)
               /\ pc' = "done" ]_vars

(* C7: a ' ' line succeeds only if the cursor indexes an existing source   *)
(* line equal to the payload; then that line is appended and the cursor    *)
(* advances by one; a context line that does not match the source at the   *)
(* cursor, also at or past the end of the source, always throws "Context   *)
(* mismatch".                                                              *)
C7_ContextLines ==
    [][ AtMarker(" ") =>
          IF CursorOnLine /\ Payload = sourceLines[sourceIndex + 1]
          THEN /\ sourceIndex' = sourceIndex + 1
               /\ outputLines' = Append(outputLines, sourceLines[sourceIndex + 1])
               /\ result' = ApplyPending
          ELSE /\ result' = Threw(ContextMismatch)
               /\ pc' = "done" ]_vars

(* The diff from line k on holds, besides empty lines and `--- `/`+++ `     *)
(* lines, only valid hunk headers and context lines that equal the lines of *)
(* baseText at the positions the headers give.  cursor is the zero-based    *)
(* position the next context line stands for; every hunk starts inside      *)
(* baseText.  With strict, every hunk also starts at or after the end of    *)
(* the hunk before it.                                                      *)
RECURSIVE ContextOnly(_, _, _, _)
ContextOnly(k, cursor, inHunk, strict) ==
    IF k > Len(diffText) THEN TRUE
    ELSE LET l == diffText[k]
         IN  IF l = <<>> THEN ContextOnly(k + 1, cursor, inHunk, strict)
             ELSE IF StartsWith(l, HunkStart)
             THEN /\ hunkHeaderPattern(l) # Null
                  /\ LET s == StartOld(hunkHeaderPattern(l))
                     IN  /\ s <= Len(baseText)
                         /\ strict => cursor <= s
                         /\ ContextOnly(k + 1, s, TRUE, strict)
             ELSE IF IsPathHeader(l) THEN ContextOnly(k + 1, cursor, FALSE, strict)
             ELSE /\ inHunk
                  /\ Head(l) = " "
                  /\ cursor < Len(baseText)
                  /\ Slice(l, 1) = baseText[cursor + 1]
                  /\ ContextOnly(k + 1, cursor + 1, TRUE, strict)

----------------------------------------------------------------------------
(* Claims about splitUnifiedDiffByFile.                                    *)

GitLines == { k \in 1..Len(lines) : StartsWith(lines[k], DiffGit) }

(* The section opened by the `diff --git ` line g ends before the next one. *)
SectionEnd(g) ==
    IF \E h \in GitLines : h > g
    THEN (CHOOSE h \in GitLines : h > g /\ \A h2 \in GitLines : h2 > g => h <= h2) - 1
    ELSE Len(lines)

Sectioned ==
    /\ Len(lines) >= 1
    /\ StartsWith(lines[1], DiffGit)
    /\ \A g \in GitLines : \E k \in g..SectionEnd(g) : IsPathHeader(lines[k])

(* The n-th `diff --git ` line in source order. *)
NthGit(n) == CHOOSE g \in GitLines : Cardinality({ h \in GitLines : h <= g }) = n

(* Path portion of the last line of sec that starts with prefix, or Null. *)
LastHeader(sec, prefix) ==
    LET hs == { k \in 1..Len(sec) : StartsWith(sec[k], prefix) }
    IN  IF hs = {} THEN Null
        ELSE HeaderPath(sec[CHOOSE k \in hs : \A j \in hs : j <= k])

(* C9: a patch of k >= 1 sections, each beginning with `diff --git ` and   *)
(* holding at least one `--- `/`+++ ` line, gives exactly k segments in    *)
(* source order, the i-th built from the i-th section, with raw paths      *)
(* taken from the section's headers and oldPath/newPath their normal form. *)
C9_SegmentCountAndOrder ==
    (call = "split" /\ pc = "done" /\ Sectioned) =>
        /\ Len(segments) = Cardinality(GitLines)
        /\ \A n \in 1..Len(segments) :
              LET sec == SubSeq(lines, NthGit(n), SectionEnd(NthGit(n)))
              IN  /\ segments[n].patchText = sec
                  /\ segments[n].rawOldPath = LastHeader(sec, OldHeader)
                  /\ segments[n].rawNewPath = LastHeader(sec, NewHeader)
                  /\ segments[n].oldPath = normalizePatchPath(LastHeader(sec, OldHeader))
                  /\ segments[n].newPath = normalizePatchPath(LastHeader(sec, NewHeader))

(* Two sections, the second one a rename o -> n after a section for x. *)
C9_Witness ==
    /\ call = "split" /\ pc = "done" /\ Sectioned
    /\ Len(segments) = 2
    /\ segments[1].oldPath = PathX
    /\ segments[2].oldPath = << "o" >>
    /\ segments[2].newPath = << "n" >>

HeaderPathsIn(text, prefix) ==
    { HeaderPath(text[k]) : k \in { j \in 1..Len(text) : StartsWith(text[j], prefix) } }

(* The headers in force at line k of text: the last `--- `/`+++ ` before it. *)
HunksFollowHeaders(seg) ==
    \A k \in 1..Len(seg.patchText) :
        StartsWith(seg.patchText[k], HunkStart) =>
            LET before == SubSeq(seg.patchText, 1, k - 1)
            IN  /\ LastHeader(before, OldHeader) \in { Null, seg.rawOldPath }
                /\ LastHeader(before, NewHeader) \in { Null, seg.rawNewPath }

OneFileOnly(seg) ==
    /\ Cardinality(HeaderPathsIn(seg.patchText, OldHeader)) <= 1
    /\ Cardinality(HeaderPathsIn(seg.patchText, NewHeader)) <= 1
    /\ HunksFollowHeaders(seg)

(* C10 as stated: for every patch, with or without `diff --git ` lines, no *)
(* segment holds `--- ` (or `+++ `) headers naming two different files and *)
(* every hunk of a segment belongs to the file its raw paths name.         *)
C10_OneFilePerSegment_AsStated ==
    (call = "split" /\ pc = "done") =>
        \A n \in 1..Len(segments) : OneFileOnly(segments[n])

(* Every change of file in the patch is announced by a `diff --git ` line. *)
GitSeparated ==
    \A prefix \in { OldHeader, NewHeader } :
        \A j, k \in 1..Len(lines) :
            (/\ j < k
             /\ StartsWith(lines[j], prefix) /\ StartsWith(lines[k], prefix)
             /\ HeaderPath(lines[j]) # HeaderPath(lines[k]))
            => \E g \in GitLines : j < g /\ g < k

(* C10 amended: when every file section after the first begins with a      *)
(* `diff --git ` line, each segment holds the headers and hunks of one     *)
(* file only.                                                              *)
C10_OneFilePerSegment ==
    (call = "split" /\ pc = "done" /\ GitSeparated) =>
        \A n \in 1..Len(segments) : OneFileOnly(segments[n])

(* A two-file patch, the first file without a `diff --git ` line.          *)
C10_Witness ==
    /\ call = "split" /\ pc = "done" /\ GitSeparated
    /\ Len(segments) = 2
    /\ ~StartsWith(lines[1], DiffGit)
    /\ segments[1].rawOldPath = PathAX
    /\ segments[2].rawOldPath = PathAO
    /\ \E k \in 1..Len(segments[2].patchText) :
          StartsWith(segments[2].patchText[k], HunkStart)

----------------------------------------------------------------------------
(* Claims about deletion headers, normalizePatchPath and the sandbox.      *)

(* C11: a `--- `/`+++ ` header whose path portion is empty or /dev/null    *)
(* never makes sanitizePatchTargets throw, whatever the targets; and for   *)
(* any path x the patch `--- a/x`, `+++ /dev/null` passes with target x    *)
(* and splits into exactly one segment with oldPath = x, newPath = null.   *)
C11_DeletionToNull ==
    (call = "validate" /\ pc = "done") =>
        /\ sanResult.status = "threw" => sanResult.candidate \notin { <<>>, DevNull }
        /\ Candidates = {} => sanResult.status = "ok"
        /\ \A x \in TargetPaths \ { <<>>, DevNull } :
              (/\ targets = << x >>
               /\ SamePatch(patchText, << OldHeader \o PrefixA \o x, NewHeader \o DevNull >>))
              => /\ sanResult.status = "ok"
                 /\ Len(segments) = 1
                 /\ segments[1].oldPath = x
                 /\ segments[1].newPath = Null

(* The string s of C12, read off the input by positions: backslashes       *)
(* become "/", one leading "./" goes, and s runs from the first to the     *)
(* last character that is no whitespace.                                   *)
ClaimS(raw) ==
    LET r == [k \in 1..Len(raw) |-> IF raw[k] = "\\" THEN "/" ELSE raw[k]]
        from == IF Len(r) >= 2 /\ r[1] = "." /\ r[2] = "/" THEN 3 ELSE 1
        solid == { k \in from..Len(r) : r[k] \notin { " ", "\t", "\r" } }
    IN  IF solid = {} THEN <<>>
        ELSE LET lo == CHOOSE k \in solid : \A j \in solid : k <= j
                 hi == CHOOSE k \in solid : \A j \in solid : j <= k
             IN  [k \in 1..(hi - lo + 1) |-> r[lo + k - 1]]

(* C12: normalizePatchPath never throws; it returns null exactly when the  *)
(* input is null/empty or s is empty or s is /dev/null; otherwise s        *)
(* without its first two characters when s starts with a/ or b/, and s     *)
(* unchanged if not.                                                       *)
C12_NormalizerResult ==
    (call = "normalize" /\ pc = "done") =>
        IF normalizeArg = Null \/ normalizeArg = <<>> THEN normalized = Null
        ELSE LET s == ClaimS(normalizeArg)
             IN  IF s = <<>> \/ s = DevNull THEN normalized = Null
                 ELSE /\ normalized # Null
                      /\ IF Len(s) >= 2 /\ s[1] \in { "a", "b" } /\ s[2] = "/"
                         THEN normalized = [k \in 1..(Len(s) - 2) |-> s[k + 2]]
                         ELSE normalized = s

(* The input `.\a/x `: the backslash replaced, the leading `./` stripped,   *)
(* the end trimmed and the a/ prefix removed.                              *)
C12_Witness ==
    /\ call = "normalize" /\ pc = "done"
    /\ normalizeArg = << ".", "\\" >> \o PathAX \o << " " >>
    /\ normalized = PathX

(* p is the directory root or lies below it. *)
InsideRoot(p, root) ==
    \/ p = root
    \/ Len(p) > Len(root) + 1 /\ SubSeq(p, 1, Len(root) + 1) = root \o << "/" >>

(* C13: for every target path resolveWorkspacePath either throws "Access   *)
(* denied: path escapes workspace root." or returns an absolute path that  *)
(* is the workspace root or a descendant of it.                            *)
C13_WorkspaceSandbox ==
    (call = "resolve" /\ pc = "done") =>
        \/ resolved = ResolveThrew(AccessDenied)
        \/ /\ resolved.status = "returned"
           /\ IsAbsolute(resolved.path)
           /\ InsideRoot(resolved.path, workspaceRoot)

----------------------------------------------------------------------------
(* Claims about the steps of applyUnifiedDiff.                             *)

AllDigits(l, a, b) == a <= b /\ b <= Len(l) /\ \A k \in a..b : IsDigit(l[k])

(* l[a..b] reads \d+ or \d+,\d+ *)
RangeAt(l, a, b) ==
    \E m \in a..b :
        /\ AllDigits(l, a, m)
        /\ m = b \/ (m + 2 <= b /\ l[m + 1] = "," /\ AllDigits(l, m + 2, b))

(* The line matches ^@@ -(\d+)(?:,(\d+))? \+(\d+)(?:,(\d+))? @@ *)
MatchesHeaderGrammar(l) ==
    /\ HasAt(l, 1, << "@", "@", " ", "-" >>)
    /\ \E b1 \in 5..Len(l) :
          /\ HasAt(l, b1 + 1, << " ", "+" >>)
          /\ RangeAt(l, 5, b1)
          /\ \E b2 \in (b1 + 3)..Len(l) :
                /\ HasAt(l, b2 + 1, << " ", "@", "@" >>)
                /\ RangeAt(l, b1 + 3, b2)

(* The digits of oldStart in a line that matches the grammar. *)
OldStartDigits(l) ==
    SubSeq(l, 5, CHOOSE e \in 5..Len(l) :
                     AllDigits(l, 5, e) /\ (e = Len(l) \/ ~IsDigit(l[e + 1])))

(* max(oldStart - 1, 0) *)
HunkIndex(l) ==
    LET n == parseInt(OldStartDigits(l)) IN IF n = 0 THEN 0 ELSE n - 1

OnValidHeader ==
    Scanning /\ StartsWith(CurLine, HunkStart) /\ MatchesHeaderGrammar(CurLine)

(* C14: on a valid hunk header with start s and cursor c <= s, if s does   *)
(* not exceed the number of source lines exactly the source lines c..s-1   *)
(* are appended in order and the cursor becomes s; if the hunk's start     *)
(* lies beyond the end of the source the call fails with "Patch hunk       *)
(* exceeds original file length."                                          *)
C14_CatchUpCopy ==
    [][ (OnValidHeader /\ sourceIndex <= HunkIndex(CurLine)) =>
          IF HunkIndex(CurLine) <= Len(sourceLines)
          THEN /\ outputLines' =
                     outputLines \o SubSeq(sourceLines, sourceIndex + 1, HunkIndex(CurLine))
               /\ sourceIndex' = HunkIndex(CurLine)
               /\ result' = ApplyPending
          ELSE /\ result' = Threw(HunkExceeds)
               /\ pc' = "done" ]_vars

(* The hunks of patchLines from line k on start at or after the end of the *)
(* old range of the hunk before them; end is the zero-based index after    *)
(* the source lines the ' ' and '-' lines of the hunks so far stand for.   *)
RECURSIVE OrderedHunks(_, _, _)
OrderedHunks(k, end, inHunk) ==
    IF k > Len(patchLines) THEN TRUE
    ELSE LET l == patchLines[k]
         IN  IF l = <<>> THEN OrderedHunks(k + 1, end, inHunk)
             ELSE IF StartsWith(l, HunkStart)
             THEN /\ MatchesHeaderGrammar(l)
                  /\ end <= HunkIndex(l)
                  /\ OrderedHunks(k + 1, HunkIndex(l), TRUE)
             ELSE IF IsPathHeader(l) THEN OrderedHunks(k + 1, end, FALSE)
             ELSE IF inHunk /\ Head(l) \in { " ", "-" }
                  THEN OrderedHunks(k + 1, end + 1, TRUE)
                  ELSE OrderedHunks(k + 1, end, inHunk)

(* While a body is consumed: the header of the hunk, and the number of its *)
(* ' ' and '-' lines consumed so far.                                      *)
CurrentHunk ==
    CHOOSE h \in 1..i :
        /\ StartsWith(patchLines[h], HunkStart)
        /\ \A j \in (h + 1)..i : ~StartsWith(patchLines[j], HunkStart)

OldLinesConsumed ==
    Cardinality({ k \in (CurrentHunk + 1)..i :
                    patchLines[k] # <<>> /\ Head(patchLines[k]) \in { " ", "-" } })

(* The position in the original source the next body line stands for. *)
BodyPosition == HunkIndex(patchLines[CurrentHunk]) + OldLinesConsumed

(* C15: for a diff whose hunks have increasing oldStart and old ranges     *)
(* that do not overlap, each hunk body is checked against the original     *)
(* source from index oldStart - 1 on, whatever earlier hunks added or      *)
(* removed, and the source lines between consecutive hunks are copied to   *)
(* the output unchanged and in order.                                      *)
C15_MultiHunkSequencing ==
    [][ (call = "apply" /\ (pc = "body" \/ OnValidHeader) /\ OrderedHunks(1, 0, FALSE)) =>
          /\ pc = "body" => sourceIndex = BodyPosition
          /\ (InBody /\ IsMarkerLine(CurLine) /\ Marker \in { " ", "-" } /\ i' = i + 1
                /\ BodyPosition < Len(sourceLines))
                => Payload = sourceLines[BodyPosition + 1]
          /\ (OnValidHeader /\ pc' = "body")
                => /\ sourceIndex' = HunkIndex(CurLine)
                   /\ outputLines' =
                         outputLines \o SubSeq(sourceLines, sourceIndex + 1, HunkIndex(CurLine)) ]_vars

(* The first hunk added a line; the second, at oldStart 2, deleted the     *)
(* second line of the source after the first was copied.                   *)
C15_Witness ==
    /\ call = "apply" /\ pc = "body"
    /\ sourceLines = << LineA, LineA >>
    /\ patchLines = << HunkHeader1, << "+" >> \o LineA, HunkHeader2, << "-" >> \o LineA >>
    /\ i = 4
    /\ sourceIndex = 2
    /\ outputLines = << LineA, LineA >>
    /\ OrderedHunks(1, 0, FALSE)

(* C16 as stated: an empty diff line met while a hunk body is consumed     *)
(* contributes one empty line to the output and leaves the cursor          *)
(* unchanged.                                                              *)
C16_EmptyBodyLine_AsStated ==
    [][ (InBody /\ CurLine = <<>>) =>
          /\ outputLines' = Append(outputLines, <<>>)
          /\ sourceIndex' = sourceIndex ]_vars

(* C16 amended: an empty diff line met while a hunk body is consumed is    *)
(* skipped; it contributes nothing to the output, leaves the cursor        *)
(* unchanged and the body goes on with the next line.                      *)
C16_EmptyBodyLine ==
    [][ (InBody /\ CurLine = <<>>) =>
          /\ outputLines' = outputLines
          /\ sourceIndex' = sourceIndex
          /\ i' = i + 1
          /\ pc' = "body"
          /\ result' = ApplyPending ]_vars

(* An empty line was passed in the body of a hunk after a context line.    *)
C16_Witness ==
    /\ call = "apply" /\ pc = "body"
    /\ patchLines = << HunkHeader1, << " " >> \o LineA, <<>> >>
    /\ i = 3
    /\ outputLines = << LineA >>
    /\ sourceIndex = 1

(* A non-empty body line that is no header and no `\ No newline` marker.   *)
AtOtherMarker(excluded) ==
    /\ InBody
    /\ CurLine # <<>>
    /\ ~(StartsWith(CurLine, HunkStart) \/ IsPathHeader(CurLine))
    /\ ~StartsWith(CurLine, NoNewlineStart)
    /\ CurLine[1] \notin excluded

(* C17 as stated: every such line whose first character is none of ' ',    *)
(* '-', '+' makes the call fail with "Unsupported patch line" and changes  *)
(* neither output nor cursor.                                              *)
C17_UnsupportedLines_AsStated ==
    [][ AtOtherMarker({ " ", "-", "+" }) =>
          /\ result' = Threw(UnsupportedLine)
          /\ outputLines' = outputLines
          /\ sourceIndex' = sourceIndex ]_vars

(* C17 amended: every such line whose first character is none of ' ', '-', *)
(* '+' and no other whitespace character (a tab) makes the call fail with  *)
(* "Unsupported patch line" and changes neither output nor cursor.         *)
C17_UnsupportedLines ==
    [][ AtOtherMarker({ " ", "-", "+", "\t" }) =>
          /\ result' = Threw(UnsupportedLine)
          /\ pc' = "done"
          /\ outputLines' = outputLines
          /\ sourceIndex' = sourceIndex ]_vars

(* The line `index` met in a body after a context line.                    *)
C17_Witness ==
    /\ call = "apply" /\ pc = "done"
    /\ result = Threw(UnsupportedLine)
    /\ patchLines = << HunkHeader1, << " " >> \o LineA, << "i", "n", "d", "e", "x" >> >>
    /\ i = 2
    /\ outputLines = << LineA >>

(* The line under the loop begins with `@@ ` and does not match the grammar. *)
OnInvalidHeader ==
    /\ call = "apply" /\ pc \in { "scan", "body" } /\ i < Len(patchLines)
    /\ StartsWith(CurLine, HunkStart)
    /\ ~MatchesHeaderGrammar(CurLine)

(* C18: a line beginning with `@@ ` that does not match the header grammar *)
(* makes the call fail with "Invalid hunk header": met while scanning it   *)
(* throws at once; met in a hunk body it ends the body, is not consumed,   *)
(* and is examined again by the scanning loop.                             *)
C18_InvalidHunkHeader ==
    [][ OnInvalidHeader =>
          IF pc = "scan"
          THEN result' = Threw(InvalidHunkHeader) /\ pc' = "done"
          ELSE /\ pc' = "scan"
               /\ i' = i
               /\ outputLines' = outputLines
               /\ sourceIndex' = sourceIndex
               /\ result' = ApplyPending ]_vars

(* `@@ -1 @@` met in the body of a valid hunk.                             *)
C18_Witness ==
    /\ call = "apply" /\ pc = "done"
    /\ result = Threw(InvalidHunkHeader)
    /\ patchLines = << HunkHeader1, << "+" >> \o LineA, BadHunkHeader >>
    /\ i = 2
    /\ outputLines = << LineA >>

(* The other ways to write the oldCount, newStart and newCount fields.     *)
FieldForms ==
    { << " ", "+", "1", " ", "@", "@" >>,
      << ",", "0", " ", "+", "3", ",", "4", " ", "@", "@" >> }

(* oldStart 0 and oldStart 1 count as the same start. *)
StartForms(ds) == IF parseInt(ds) <= 1 THEN { << "0" >>, << "1" >> } ELSE { ds }

LineVariants(l) ==
    IF StartsWith(l, HunkStart) /\ MatchesHeaderGrammar(l)
    THEN { << "@", "@", " ", "-" >> \o ds \o f :
             ds \in StartForms(OldStartDigits(l)), f \in FieldForms }
    ELSE { l }

(* The diffs that differ from d only in those fields of its hunk headers.  *)
RECURSIVE HeaderVariants(_)
HeaderVariants(d) ==
    IF d = <<>> THEN { <<>> }
    ELSE { << h >> \o t : h \in LineVariants(Head(d)), t \in HeaderVariants(Tail(d)) }

(* C19: two diffs that differ only in the oldCount, newStart or newCount   *)
(* fields of their hunk headers give the same outcome on any base text,    *)
(* the same returned text or the same error; oldStart = 0 behaves as       *)
(* oldStart = 1.                                                           *)
C19_OnlyOldStartMatters ==
    (call = "apply" /\ pc = "done") =>
        \A v \in HeaderVariants(diffText) : applyUnifiedDiff(baseText, v) = result

(* A deletion at oldStart 2 under the header `@@ -2,1 +2 @@`; the header   *)
(* `@@ -2,0 +3,4 @@` gives the same text.                                  *)
C19_Witness ==
    /\ call = "apply" /\ pc = "done"
    /\ baseText = << LineA, LineA >>
    /\ diffText = << HunkHeader2, << "-" >> \o LineA >>
    /\ result = Returned(<< LineA >>)
    /\ << << "@", "@", " ", "-", "2", ",", "0", " ", "+", "3", ",", "4", " ", "@", "@" >>,
          << "-" >> \o LineA >> \in HeaderVariants(diffText)

(* The line under the loop begins with `@@ `, `--- ` or `+++ `. *)
OnHeaderLine ==
    i < Len(patchLines) /\
    (StartsWith(CurLine, HunkStart) \/ StartsWith(CurLine, OldHeader)
        \/ StartsWith(CurLine, NewHeader))

(* C20: scanning -> consuming happens only on a line matching the header   *)
(* grammar, after the catch-up copy; consuming -> scanning happens exactly *)
(* when a line beginning with `@@ `, `--- ` or `+++ ` is met, which is not *)
(* consumed and is examined again, or when the input ends; while scanning, *)
(* a line that does not begin with `@@ ` changes neither cursor nor        *)
(* output; the trailing copy runs only after the diff lines are exhausted. *)
C20_TwoStateView ==
    [][ call = "apply" =>
          /\ (pc = "scan" /\ pc' = "body") =>
                /\ i < Len(patchLines)
                /\ MatchesHeaderGrammar(CurLine)
                /\ i' = i + 1
                /\ sourceIndex' = IF sourceIndex < HunkIndex(CurLine)
                                  THEN HunkIndex(CurLine) ELSE sourceIndex
                /\ outputLines' =
                      outputLines \o SubSeq(sourceLines, sourceIndex + 1, HunkIndex(CurLine))
          /\ pc = "body" => (pc' = "scan" <=> (i >= Len(patchLines) \/ OnHeaderLine))
          /\ (pc = "body" /\ OnHeaderLine) =>
                /\ i' = i
                /\ outputLines' = outputLines
                /\ sourceIndex' = sourceIndex
                /\ result' = ApplyPending
          /\ (pc = "scan" /\ i < Len(patchLines) /\ ~StartsWith(CurLine, HunkStart)) =>
                /\ pc' = "scan"
                /\ outputLines' = outputLines
                /\ sourceIndex' = sourceIndex
          /\ (result'.status = "returned" \/ (pc' = "done" /\ outputLines' # outputLines))
                => (pc = "scan" /\ i >= Len(patchLines)) ]_vars

(* Scanning, a body, the next header handed back to the scanning loop, a   *)
(* second body ended by the end of the input, and the trailing copy.       *)
C20_Witness ==
    /\ call = "apply" /\ pc = "done"
    /\ baseText = << LineA, <<>> >>
    /\ patchLines = << HunkHeader1, << "+" >> \o LineA, HunkHeader2 >>
    /\ i = 4
    /\ result = Returned(<< LineA, LineA, <<>> >>)

----------------------------------------------------------------------------
(* Claims about the segments of splitUnifiedDiffByFile.                    *)

Recordable(l) ==
    \/ StartsWith(l, DiffGit) \/ StartsWith(l, OldHeader)
    \/ StartsWith(l, NewHeader) \/ StartsWith(l, HunkStart)

(* What C21 says of a segment. *)
SegmentShape(p) ==
    /\ p.patchText # <<>>
    /\ Recordable(p.patchText[1])
    /\ \A k \in 2..Len(p.patchText) : ~StartsWith(p.patchText[k], DiffGit)
    /\ p.rawOldPath = LastHeader(p.patchText, OldHeader)
    /\ p.rawNewPath = LastHeader(p.patchText, NewHeader)

(* C21: a `diff --git ` line always flushes the buffer and starts a new    *)
(* segment with that line; while not recording a `--- `, `+++ ` or `@@ `   *)
(* line starts recording with that line and every other line is discarded; *)
(* while recording every other line is appended.  Hence every segment      *)
(* begins with a `diff --git `, `--- `, `+++ ` or `@@ ` line, holds no     *)
(* `diff --git ` line after its first, and its raw paths are the path      *)
(* portions of its last `--- ` and `+++ ` lines.                           *)
C21_RecordingRule ==
    [][ (call = "split" /\ pc = "loop") =>
          /\ idx <= Len(lines) =>
                IF StartsWith(lines[idx], DiffGit)
                THEN /\ buffer' = << lines[idx] >>
                     /\ recording'
                     /\ IF recording
                        THEN /\ Len(patches') = Len(patches) + 1
                             /\ SubSeq(patches', 1, Len(patches)) = patches
                             /\ patches'[Len(patches')].patchText = buffer
                        ELSE patches' = patches
                ELSE IF ~recording
                THEN /\ patches' = patches
                     /\ IF Recordable(lines[idx])
                        THEN buffer' = << lines[idx] >> /\ recording'
                        ELSE buffer' = buffer /\ ~recording'
                ELSE /\ patches' = patches
                     /\ buffer' = Append(buffer, lines[idx])
                     /\ recording'
          /\ \A n \in 1..Len(patches') : SegmentShape(patches'[n])
          /\ \A n \in 1..Len(segments') : SegmentShape(segments'[n]) ]_vars

(* A discarded preamble, then one segment with two `--- ` lines: the last  *)
(* one gives rawOldPath.                                                   *)
C21_Witness ==
    /\ call = "split" /\ pc = "done"
    /\ Len(lines) = 4
    /\ lines[1] = << "i", "n", "d", "e", "x" >>
    /\ lines[2] = OldHeader \o PathAX
    /\ lines[3] = OldHeader \o PathAO
    /\ Len(segments) = 1
    /\ segments[1].patchText = SubSeq(lines, 2, 4)
    /\ segments[1].rawOldPath = PathAO

(* The input of splitUnifiedDiffByFile with its carriage returns removed.  *)
StrippedInput ==
    [k \in 1..Len(patchText) |->
        SelectSeq(patchText[k], LAMBDA c : c \notin { "\r" })]

(* The runs of the input: the first starts at the first recordable line,   *)
(* every `diff --git ` line after it starts the next.                      *)
FirstRecorded(L) ==
    IF \E k \in 1..Len(L) : Recordable(L[k])
    THEN CHOOSE k \in 1..Len(L) :
             /\ Recordable(L[k])
             /\ \A j \in 1..(k - 1) : ~Recordable(L[j])
    ELSE 0

RunStarts(L) ==
    LET first == FirstRecorded(L)
    IN  IF first = 0 THEN {}
        ELSE { first } \cup
             { k \in (first + 1)..Len(L) : StartsWith(L[k], DiffGit) }

RunEnd(L, starts, a) ==
    LET later == { b \in starts : b > a }
    IN  IF later = {} THEN Len(L)
        ELSE (CHOOSE b \in later : \A c \in later : b <= c) - 1

RunText(L, starts, a) == SubSeq(L, a, RunEnd(L, starts, a))

RetainedRuns(L, starts) ==
    { a \in starts : \E k \in a..RunEnd(L, starts, a) : IsPathHeader(L[k]) }

NthRetained(retained, n) ==
    CHOOSE a \in retained : Cardinality({ b \in retained : b <= a }) = n

(* C22: every returned segment has rawOldPath or rawNewPath non-null; a    *)
(* run started by `diff --git ` or `@@ ` without any `--- `/`+++ ` line    *)
(* gives no segment; the call returns on every input.                      *)
C22_Retention ==
    (call = "split" /\ pc = "done") =>
        LET L == StrippedInput
            starts == RunStarts(L)
            retained == RetainedRuns(L, starts)
        IN  /\ \A n \in 1..Len(segments) :
                  segments[n].rawOldPath # Null \/ segments[n].rawNewPath # Null
            /\ Len(segments) = Cardinality(retained)
            /\ \A a \in starts \ retained :
                  \A n \in 1..Len(segments) :
                      segments[n].patchText # RunText(L, starts, a)

(* A `diff --git ` run with a hunk but no path header was dropped, the run *)
(* after it kept.                                                          *)
C22_Witness ==
    /\ call = "split" /\ pc = "done"
    /\ Len(lines) = 4
    /\ lines[1] = DiffGit \o PathX
    /\ lines[2] = HunkHeader1
    /\ lines[3] = DiffGit \o PathX
    /\ lines[4] = OldHeader \o PathAO
    /\ Len(patches) = 2
    /\ Len(segments) = 1
    /\ segments[1].patchText = SubSeq(lines, 3, 4)

(* C27: every segment returned by splitUnifiedDiffByFile has oldPath or    *)
(* newPath non-null.                                                       *)
C27_SegmentHasPath ==
    (call = "split" /\ pc = "done") =>
        \A n \in 1..Len(segments) :
            segments[n].oldPath # Null \/ segments[n].newPath # Null

RECURSIVE ConcatTexts(_)
ConcatTexts(ss) ==
    IF ss = <<>> THEN <<>> ELSE Head(ss).patchText \o ConcatTexts(Tail(ss))

(* C28: each segment's patchText is a contiguous run of the CR-stripped    *)
(* input lines, the runs are disjoint and in input order, and when the     *)
(* final filter drops no segment the patchTexts joined by newlines are the *)
(* CR-stripped input from its first recorded line to its end.              *)
C28_SegmentsPartition ==
    (call = "split" /\ pc = "done") =>
        LET L == StrippedInput
            starts == RunStarts(L)
            retained == RetainedRuns(L, starts)
        IN  /\ Len(segments) <= Cardinality(retained)
            /\ \A n \in 1..Len(segments) :
                  LET a == NthRetained(retained, n)
                  IN  /\ segments[n].patchText = RunText(L, starts, a)
                      /\ n < Len(segments) =>
                            RunEnd(L, starts, a) < NthRetained(retained, n + 1)
            /\ (starts # {} /\ retained = starts) =>
                  ConcatTexts(segments) = SubSeq(L, FirstRecorded(L), Len(L))

(* Two segments, and a last run without a path header that is dropped,    *)
(* out of a five-line input that holds a carriage return.                  *)
C28_Witness ==
    /\ call = "split" /\ pc = "done"
    /\ patchText = << OldHeader \o PathAX \o << "\r" >>, HunkHeader1,
                      DiffGit \o PathX, NewHeader \o PathBN,
                      DiffGit \o PathX >>
    /\ Len(segments) = 2
    /\ segments[1].patchText = << OldHeader \o PathAX, HunkHeader1 >>
    /\ segments[2].patchText = << DiffGit \o PathX, NewHeader \o PathBN >>

----------------------------------------------------------------------------
(* Claims about normalizePatchPath and the target list.                    *)

(* C26: every non-null result of normalizePatchPath is a non-empty string  *)
(* other than `/dev/null`.                                                 *)
C26_NonNullIsUsablePath ==
    (call = "normalize" /\ pc = "done" /\ normalized # Null) =>
        (normalized # <<>> /\ normalized # DevNull)

(* A header line whose path portion is non-empty and not `/dev/null`.      *)
NamesAFile(line) ==
    /\ StartsWith(line, OldHeader) \/ StartsWith(line, NewHeader)
    /\ HeaderPath(line) \notin { <<>>, DevNull }

(* C29: with no target that normalizes to a path, a patch with a `--- ` or *)
(* `+++ ` header naming a file is rejected; and a patch accepted for a     *)
(* target list is accepted for every longer list.                          *)
C29_DefaultDeny ==
    (call = "validate" /\ sanResult.status # "pending") =>
        /\ ( /\ \A k \in 1..Len(targets) : ~Truthy(normalizePatchPath(targets[k]))
             /\ \E k \in 1..Len(patchText) : NamesAFile(patchText[k]) )
           => sanResult.status = "threw"
        /\ sanResult.status = "ok" =>
              \A t \in TargetPaths :
                  /\ sanitizePatchTargets(patchText, Append(targets, t)).status = "ok"
                  /\ sanitizePatchTargets(patchText, << t >> \o targets).status = "ok"

(* The only target is `/dev/null` and the patch names the file x: rejected. *)
C29_Witness ==
    /\ call = "validate"
    /\ targets = << DevNull >>
    /\ Len(patchText) = 2
    /\ patchText[1] = OldHeader \o PathX
    /\ sanResult = SanThrow(PathX)

(* C30: normalizePatchPath(r) = r for every non-null result r of           *)
(* normalizePatchPath.                                                     *)
C30_NormalizerIdempotent ==
    (call = "normalize" /\ pc = "done" /\ normalized # Null) =>
        normalizePatchPath(normalized) = normalized

----------------------------------------------------------------------------
(* Claims about the whole run of applyUnifiedDiff.                         *)

(* Twice the index of the line under examination, plus one when the outer  *)
(* loop examines it.                                                       *)
PassPosition == 2 * i + (IF pc = "scan" THEN 1 ELSE 0)

(* The iterations of the catch-up loop started at a valid header: one per  *)
(* copied line, and one more for the iteration that throws.                *)
CatchUpIterations ==
    LET c == CatchUp(sourceLines, sourceIndex, outputLines,
                     StartOld(hunkHeaderPattern(CurLine)))
    IN  (c.sourceIndex - sourceIndex) + (IF c.threw THEN 1 ELSE 0)

(* C23: the call ends on every input: every step that does not end it     *)
(* moves forward in a pass bounded by the length of the diff, no step      *)
(* follows the return or the throw, a line is examined at most twice, the  *)
(* second time only for a header line that ended a hunk body; and the      *)
(* catch-up copy of a hunk makes at most (number of source lines + 1)      *)
(* iterations whatever its oldStart.                                       *)
C23_Termination ==
    [][ call = "apply" =>
          /\ pc # "done"
          /\ i <= i' /\ i' <= Len(patchLines) + 1
          /\ pc' # "done" =>
                (PassPosition < PassPosition' /\ PassPosition' <= 2 * Len(patchLines) + 3)
          /\ (pc' # "done" /\ i' = i) =>
                (pc = "body" /\ pc' = "scan" /\ IsHeaderLine(CurLine))
          /\ OnValidHeader => CatchUpIterations <= Len(sourceLines) + 1 ]_vars

(* A header with oldStart 99 met again after it ended the body of the      *)
(* first hunk: the catch-up loop ran off the one-line source and the call  *)
(* threw.                                                                  *)
C23_Witness ==
    /\ call = "apply" /\ pc = "done"
    /\ patchLines = << HunkHeader1, << "+" >> \o LineA, HunkHeaderFar >>
    /\ Len(sourceLines) = 1
    /\ i = 2
    /\ result = Threw(HunkExceeds)

OnMarker(m) == InBody /\ IsMarkerLine(CurLine) /\ Marker = m

(* The source lines from the cursor up to the cursor of the next state.    *)
SourceLinesPassed ==
    SubSeq(sourceLines, sourceIndex + 1, Min(sourceIndex', Len(sourceLines)))

(* C24: apart from the payloads of '+' lines, which are appended, and the  *)
(* source lines matched by '-' lines, which are passed over, every step    *)
(* appends to the output exactly the source lines the cursor passes, in    *)
(* order; the call returns only with the cursor at the end of the source.  *)
(* So the returned output without the '+' payloads is the source without   *)
(* the deleted lines: no line is dropped, duplicated, reordered, invented. *)
C24_LineConservation ==
    [][ (call = "apply" /\ pc # "done") =>
          /\ IF OnMarker("+")
             THEN outputLines' = Append(outputLines, Payload) /\ sourceIndex' = sourceIndex
             ELSE IF OnMarker("-")
             THEN outputLines' = outputLines
             ELSE outputLines' = outputLines \o SourceLinesPassed
          /\ result'.status = "returned" => sourceIndex' >= Len(sourceLines) ]_vars

(* C25: the cursor never exceeds the number of source lines and never      *)
(* decreases.                                                              *)
C25_CursorBounds ==
    [][ call = "apply" =>
          (sourceIndex <= sourceIndex' /\ sourceIndex' <= Len(sourceLines)) ]_vars

====
